---------------------------- MODULE Spec2Model ----------------------------
(***************************************************************************)
(* Prediction serving pipeline of the hospital readmission service:        *)
(* single predictions with the cache-assisted path, the batch job state    *)
(* machine of process_batch_predictions, get_batch_prediction, the paged   *)
(* history of get_patient_predictions, request validation, the registry   *)
(* initialisation of _load_models, and the functions of MLService: the     *)
(* features hash, _preprocess_features, _predict_sync and                  *)
(* _calculate_feature_importance.                                          *)
(*                                                                         *)
(* Scores are fixed-point numbers in units of 1/10000, so 0.3 is 3000 and  *)
(* 1.0 is ScoreMax.                                                         *)
(***************************************************************************)
EXTENDS Integers, Sequences, FiniteSets, TLC

VARIABLES
    models,             \* MLService.models: model name -> estimator
    batch_predictions,  \* table batch_predictions, keyed by batch_id
    predictions,        \* table predictions, in insertion order
    job,                \* per batch: the background task's arguments and locals
    redis_up,           \* RedisCache.redis_client is connected and answering
    cache,              \* the Redis keyspace: key -> stored JSON value
    background_tasks,   \* BackgroundTasks queued by create_prediction
    request,            \* the request of the last serving-boundary call
    response,           \* the response of the last serving-boundary call
    inferences,         \* number of runs of MLService._predict_sync
    calls,              \* number of create_prediction calls made
    succeeded,          \* per patient: create_prediction calls answered 200
    score,              \* a probability handed to the tier derivation
    scored,             \* the result assembled from score
    supplied,           \* a request body as a client supplied it
    computed,           \* what MLService derived from the supplied body
    artifacts,          \* per model name: what settings.MODEL_PATH holds for it
    loading             \* _load_models: index of the next model_configs entry

vars == <<models, batch_predictions, predictions, job, redis_up, cache,
          background_tasks, request, response, inferences, calls, succeeded,
          score, scored, supplied, computed, artifacts, loading>>

batchVars == <<batch_predictions, job>>
serveVars == <<redis_up, cache, background_tasks, inferences, calls, succeeded>>
scoreVars == <<score, scored>>
encodeVars == <<supplied, computed>>
loadVars == <<artifacts, loading>>

-----------------------------------------------------------------------------
(* Bounds of the model *)

MaxBatchSize == 2
MaxCalls == 2

(* Program constants *)

ScoreMax == 10000
LowThreshold == 3000
HighThreshold == 7000
BandHalfWidth == 500
DefaultLimit == 10

None == "None"

ModelType == {"xgboost", "lightgbm"}
DEFAULT_MODEL == "xgboost"
ModelVersion == "1.0.0"

Patients == {"p1", "p2"}
BatchIds == {"b1", "b2"}


RiskLevel == {"Low", "Medium", "High"}
PredictionStatus == {"pending", "processing", "completed", "failed"}

-----------------------------------------------------------------------------
(* Feature records *)

\* A JSON value of a feature: a string, a number or null.
Str(s) == [t |-> "str", v |-> s]
Num(n) == [t |-> "num", v |-> n]
NoneValue == [t |-> "none", v |-> 0]

\* The fields of PatientFeatures in declaration order: twelve of the schema's
\* fields, at least one of each kind (required and optional numbers, encoded
\* strings, a combination medication, grouped fields).
PatientFeatureFields ==
    << "age", "gender", "race", "weight", "admission_type", "time_in_hospital",
       "diag_1", "insulin", "glyburide_metformin", "change",
       "num_medications_grouped", "age_grouped" >>

\* settings.REQUIRED_FEATURES: the same twelve features in its order.
REQUIRED_FEATURES ==
    << "age", "gender", "admission_type", "time_in_hospital", "diag_1", "insulin",
       "glyburide-metformin", "change", "race", "weight",
       "num_medications_grouped", "age_grouped" >>

\* categorical_features of _initialize_feature_encoders
categorical_features ==
    { "gender", "race", "insulin", "glyburide_metformin", "change", "diag_1" }

\* encoder.classes_ after fit(["No", "Yes", "Up", "Down", "Steady", "None",
\* "Male", "Female"]): the fitted labels, sorted.
classes_ == << "Down", "Female", "Male", "No", "None", "Steady", "Up", "Yes" >>

\* The keys of a PatientFeatures dictionary as json.dumps(sort_keys=True)
\* orders them.
SortedKeys ==
    << "admission_type", "age", "age_grouped", "change", "diag_1", "gender",
       "glyburide_metformin", "insulin", "num_medications_grouped", "race",
       "time_in_hospital", "weight" >>

TopFeatures == 10

Range(seq) == { seq[i] : i \in 1..Len(seq) }

InSeq(seq, x) == \E i \in 1..Len(seq) : seq[i] = x

IndexOf(seq, x) == CHOOSE i \in 1..Len(seq) : seq[i] = x

\* PatientFeatures(**body): every declared field, None where the body has
\* no value for it.
ParseFeatures(pairs) ==
    [ f \in Range(PatientFeatureFields) |->
        IF \E i \in 1..Len(pairs) : pairs[i][1] = f
        THEN pairs[CHOOSE i \in 1..Len(pairs) : pairs[i][1] = f][2]
        ELSE NoneValue ]

\* A body holding the given fields, supplied in the order of names.
PairsOf(body, names) ==
    LET present == SelectSeq(names, LAMBDA f : f \in DOMAIN body)
    IN  [ i \in 1..Len(present) |-> <<present[i], body[present[i]]>> ]

Reverse(seq) == [ i \in 1..Len(seq) |-> seq[Len(seq) + 1 - i] ]

\* Two valid PatientFeatures values.
FeaturesA ==
    ParseFeatures(<< <<"age", Num(65)>>, <<"gender", Str("Male")>>,
                     <<"admission_type", Num(1)>>, <<"time_in_hospital", Num(3)>>,
                     <<"insulin", Str("Up")>> >>)
FeaturesB ==
    ParseFeatures(<< <<"age", Num(70)>>, <<"gender", Str("Female")>>,
                     <<"admission_type", Num(1)>>, <<"time_in_hospital", Num(3)>>,
                     <<"insulin", Str("No")>> >>)
FeatureRecords == {FeaturesA, FeaturesB}

-----------------------------------------------------------------------------
(* MLService *)

\* model.predict_proba(features)[0][1]: an opaque, deterministic function of
\* the model and the features; distinct models give distinct scores.
PredictProba(model_name, features) ==
    CASE model_name = "xgboost"  /\ features = FeaturesA -> 200
      [] model_name = "xgboost"  /\ features = FeaturesB -> 3000
      [] model_name = "lightgbm" /\ features = FeaturesA -> 6999
      [] OTHER -> 9800

RiskLevelOfSwapped(risk_score) ==
    IF risk_score <= LowThreshold THEN "Low"
    ELSE IF risk_score < HighThreshold THEN "Medium"
    ELSE "High"

\* if risk_score < 0.3 ... elif risk_score < 0.7 ... else
RiskLevelOf(risk_score) ==
    IF risk_score < LowThreshold THEN "Low"
    ELSE IF risk_score < HighThreshold THEN "Medium"
    ELSE "High"

Max(a, b) == IF a >= b THEN a ELSE b
Min(a, b) == IF a <= b THEN a ELSE b
Abs(a) == IF a >= 0 THEN a ELSE 0 - a

ConfidenceIntervalUnclipped(risk_score) ==
    << risk_score - BandHalfWidth, risk_score + BandHalfWidth >>

ConfidenceInterval(risk_score) ==
    << Max(0, risk_score - BandHalfWidth), Min(ScoreMax, risk_score + BandHalfWidth) >>

EncodeValueRaises(value) ==
    IF InSeq(classes_, value.v)
    THEN Num(IndexOf(classes_, value.v) - 1)
    ELSE Str("error")

\* Lines 259-266: str(value), a label outside encoder.classes_ replaced by
\* classes_[0], then encoder.transform: the label's index in classes_.
EncodeValue(value) ==
    LET feature_value == IF InSeq(classes_, value.v) THEN value.v ELSE classes_[1]
    IN  Num(IndexOf(classes_, feature_value) - 1)

\* Lines 255-269: every field with an encoder and a value is encoded.
EncodeCategorical(features_dict) ==
    [ f \in DOMAIN features_dict |->
        IF f \in categorical_features /\ features_dict[f].t # "none"
        THEN EncodeValue(features_dict[f])
        ELSE features_dict[f] ]

\* Lines 272-276: a required feature that is no key, or is None, becomes 0.
FillMissing(features_dict) ==
    [ f \in DOMAIN features_dict \cup Range(REQUIRED_FEATURES) |->
        IF f \notin DOMAIN features_dict THEN Num(0)
        ELSE IF f \in Range(REQUIRED_FEATURES) /\ features_dict[f].t = "none" THEN Num(0)
        ELSE features_dict[f] ]

SelectDeclared(features_dict) ==
    LET available_features == SelectSeq(PatientFeatureFields,
                                        LAMBDA f : f \in DOMAIN features_dict)
    IN  [ i \in 1..Len(available_features) |->
            [ name  |-> available_features[i],
              value |-> features_dict[available_features[i]] ] ]

\* Lines 279-283: the one-row DataFrame restricted to the required features
\* that are columns, in the order of REQUIRED_FEATURES.
SelectRequired(features_dict) ==
    LET available_features == SelectSeq(REQUIRED_FEATURES,
                                        LAMBDA f : f \in DOMAIN features_dict)
    IN  [ i \in 1..Len(available_features) |->
            [ name  |-> available_features[i],
              value |-> features_dict[available_features[i]] ] ]

\* _preprocess_features: the columns (name, value) handed to the model.
PreprocessFeatures(patient_features) ==
    SelectRequired(FillMissing(EncodeCategorical(patient_features)))

\* predict_proba accepts a frame of numeric columns only.
AllNumeric(features) == \A i \in 1..Len(features) : features[i].value.t = "num"

ImportancesNativeOnly(model, features) ==
    IF model.capability = "feature_importances_" THEN model.importances
    ELSE IF model.capability = "coef_"
    THEN [ i \in 1..Len(model.importances) |-> Abs(model.importances[i]) ]
    ELSE << >>

\* Lines 355-361: feature_importances_, else |coef_[0]|, else one random
\* number per column (model.random holds the numbers drawn).
Importances(model, features) ==
    IF model.capability = "feature_importances_" THEN model.importances
    ELSE IF model.capability = "coef_"
    THEN [ i \in 1..Len(model.importances) |-> Abs(model.importances[i]) ]
    ELSE [ i \in 1..Len(features) |-> model.random[i] ]

\* Lines 364-372: one FeatureImportanceItem per column that has an importance.
ImportanceItems(importances, features) ==
    [ i \in 1..Min(Len(features), Len(importances)) |->
        [ feature_name     |-> features[i].name,
          importance_score |-> importances[i],
          feature_value    |-> features[i].value.v,
          contribution     |-> importances[i] * features[i].value.v ] ]

RECURSIVE InsertByImportance(_, _)
\* The place of an item in a list sorted by descending importance_score:
\* behind every item whose score is at least its own.
InsertByImportance(sorted, item) ==
    IF sorted = << >> THEN << item >>
    ELSE IF Head(sorted).importance_score >= item.importance_score
    THEN << Head(sorted) >> \o InsertByImportance(Tail(sorted), item)
    ELSE << item >> \o sorted

SortSkipped(items) == items

RECURSIVE SortByImportance(_)
\* list.sort(key=importance_score, reverse=True): stable, so items of equal
\* score keep their order.
SortByImportance(items) ==
    IF items = << >> THEN << >>
    ELSE InsertByImportance(SortByImportance(SubSeq(items, 1, Len(items) - 1)),
                            items[Len(items)])

\* _calculate_feature_importance: the first ten items of the sorted list, or
\* [] when anything in the try block raised (float() of a string column, or
\* the model's attribute access).
CalculateFeatureImportance(model, features) ==
    LET importances == Importances(model, features)
        used        == Min(Len(features), Len(importances))
        sorted      == SortByImportance(ImportanceItems(importances, features))
    IN  IF model.raises \/ \E i \in 1..used : features[i].value.t # "num"
        THEN << >>
        ELSE SubSeq(sorted, 1, Min(TopFeatures, Len(sorted)))

Columns == 1..Len(REQUIRED_FEATURES)

\* The estimator joblib.load or _create_dummy_model returns for a name: a
\* gradient-boosting classifier with feature_importances_.
LoadedModel(model_name) ==
    [ capability  |-> "feature_importances_",
      importances |-> IF model_name = "xgboost"
                      THEN [i \in Columns |-> (5 * i) % 7]
                      ELSE [i \in Columns |-> (3 * i) % 5],
      random      |-> << >>,
      raises      |-> FALSE ]

LoadedModels == [ m \in ModelType |-> LoadedModel(m) ]

\* The names of _load_models' model_configs, in the order of the loop.
model_configs == <<"xgboost", "lightgbm", "random_forest", "logistic_regression">>

\* _create_dummy_model: an estimator of the configured class, fitted on the
\* placeholder rows.
CreateDummyModel(model_name) ==
    IF model_name = "logistic_regression"
    THEN [ capability  |-> "coef_",
           importances |-> [i \in Columns |-> ((4 * i) % 7) - 3],
           random      |-> << >>,
           raises      |-> FALSE ]
    ELSE LoadedModel(model_name)

\* Estimators an artifact file of a name may hold: joblib.load returns whatever
\* was dumped, a retrained estimator or one equal to the placeholder.
TrainedModels(model_name) ==
    { CreateDummyModel(model_name),
      [ CreateDummyModel(model_name) EXCEPT !.importances = [i \in Columns |-> i] ] }

\* What os.path.exists and joblib.load find for a name: no file, a file
\* joblib.load raises on, or a file holding an estimator.
ArtifactFiles(model_name) ==
    { [kind |-> "missing"], [kind |-> "unreadable"] }
    \cup { [kind |-> "file", model |-> h] : h \in TrainedModels(model_name) }

\* self.models[model_name] = model
Register(registry, model_name, model) ==
    [ m \in DOMAIN registry \cup {model_name} |->
        IF m = model_name THEN model ELSE registry[m] ]

\* The contributions of the loaded estimators for the two feature records,
\* computed once.
LoadedContributions ==
    [ m \in ModelType |->
        [ f \in FeatureRecords |->
            CalculateFeatureImportance(LoadedModels[m], PreprocessFeatures(f)) ] ]

\* Lines 342-345 on the frame predict built from the features.
FeatureImportanceOf(model_name, features) ==
    IF features \in FeatureRecords /\ models[model_name] = LoadedModels[model_name]
    THEN LoadedContributions[model_name][features]
    ELSE CalculateFeatureImportance(models[model_name], PreprocessFeatures(features))

\* The result dictionary built by _predict_sync from the probability; the key
\* feature_importance is present only when requested (None: key absent).
AssembleResult(risk_score, model_name, features, include_feature_importance) ==
    [ risk_score          |-> risk_score,
      confidence_interval |-> ConfidenceInterval(risk_score),
      risk_level          |-> RiskLevelOf(risk_score),
      model_used          |-> model_name,
      model_version       |-> ModelVersion,
      has_importance      |-> include_feature_importance,
      feature_importance  |-> IF include_feature_importance
                              THEN FeatureImportanceOf(model_name, features)
                              ELSE << >> ]

PredictSync(model_name, features, include_feature_importance) ==
    AssembleResult(PredictProba(model_name, features), model_name, features,
                   include_feature_importance)

\* predict: "if model_name is None: model_name = settings.DEFAULT_MODEL"
ResolveModel(model_name) ==
    IF model_name = None THEN DEFAULT_MODEL ELSE model_name

\* predict: "if model_name not in self.models: raise ValueError"
ModelAvailable(model_name) == ResolveModel(model_name) \in DOMAIN models

ModelUnavailable(model_name) == "Model " \o ResolveModel(model_name) \o " not available"

-----------------------------------------------------------------------------
(* Persistent store *)

NoError == ""
DatabaseError == "database error"
ScoringFailed == "scoring failed"

\* The row db.add(Prediction(...)) stores for a result.
PredictionRow(id, patient_id, result) ==
    [ id                        |-> id,
      patient_id                |-> patient_id,
      model_name                |-> result.model_used,
      model_version             |-> result.model_version,
      risk_score                |-> result.risk_score,
      confidence_interval_lower |-> result.confidence_interval[1],
      confidence_interval_upper |-> result.confidence_interval[2],
      risk_level                |-> result.risk_level,
      feature_importance        |-> result.feature_importance ]

NewBatchRowUncounted(preds, model_name) ==
    [ status            |-> "pending",
      total_records     |-> 0,
      processed_records |-> 0,
      failed_records    |-> 0,
      model_name        |-> ResolveModel(model_name),
      completed_at      |-> FALSE,
      error_message     |-> NoError ]

\* BatchPrediction(batch_id=..., status="pending", ...) of create_batch_prediction
NewBatchRow(preds, model_name) ==
    [ status            |-> "pending",
      total_records     |-> Len(preds),
      processed_records |-> 0,
      failed_records    |-> 0,
      model_name        |-> ResolveModel(model_name),
      completed_at      |-> FALSE,
      error_message     |-> NoError ]

\* BatchPredictionResponse built from a row
BatchView(b, row) ==
    [ kind              |-> "batch",
      batch_id          |-> b,
      status            |-> row.status,
      total_records     |-> row.total_records,
      processed_records |-> row.processed_records,
      failed_records    |-> row.failed_records,
      model_name        |-> row.model_name ]

ErrorResponse(code, detail) == [kind |-> "error", status_code |-> code, detail |-> detail]

NoResponse == [kind |-> "none"]
NoRequest ==
    [ kind |-> "none", patient_id |-> "p1", features |-> FeaturesA, model_name |-> None,
      include_feature_importance |-> FALSE, limit |-> 0, offset |-> 0,
      batch_id |-> None ]

\* The k-th PredictionRequest of a submitted list, and the lists a
\* BatchPredictionRequest may hold (never empty: validate_predictions_not_empty).
BatchRecordAt(k) ==
    IF k % 2 = 1
    THEN [ patient_id |-> "p1", features |-> FeaturesA, model_name |-> "lightgbm",
           include_feature_importance |-> TRUE ]
    ELSE [ patient_id |-> "p2", features |-> FeaturesB, model_name |-> None,
           include_feature_importance |-> FALSE ]

BatchLists ==
    { [k \in 1..n |-> BatchRecordAt(k)] : n \in 1..MaxBatchSize }

IdleJob ==
    [ pc |-> "idle", predictions |-> << >>, model_name |-> None, i |-> 1,
      processed_count |-> 0, failed_count |-> 0, pending |-> << >>,
      exc |-> NoError ]

-----------------------------------------------------------------------------
(* create_batch_prediction *)

\* The generated batch_id is not yet the key of a row.
CreateBatch(b, preds, model_name) ==
    /\ b \notin DOMAIN batch_predictions
    /\ \E db_ok \in BOOLEAN :
         IF db_ok
         THEN \* commit succeeded: the row exists, the task is queued, the view returned
              /\ batch_predictions' =
                    [x \in DOMAIN batch_predictions \cup {b} |->
                        IF x = b THEN NewBatchRow(preds, model_name)
                        ELSE batch_predictions[x]]
              /\ job' = [job EXCEPT ![b] =
                            [IdleJob EXCEPT !.pc = "queued", !.predictions = preds,
                                            !.model_name = model_name]]
              /\ response' = BatchView(b, NewBatchRow(preds, model_name))
         ELSE \* commit raised: HTTP 500, nothing stored, no task queued
              /\ response' = ErrorResponse(500, DatabaseError)
              /\ UNCHANGED <<batch_predictions, job>>
    /\ UNCHANGED <<models, predictions, serveVars, request, scoreVars, encodeVars, loadVars>>

CreateBatchCollisionAccepted(b) ==
    /\ b \in DOMAIN batch_predictions
    /\ \E preds \in BatchLists :
         /\ batch_predictions' =
               [batch_predictions EXCEPT ![b] = NewBatchRow(preds, None)]
         /\ response' = BatchView(b, NewBatchRow(preds, None))
    /\ UNCHANGED <<models, job, predictions, serveVars, request, scoreVars,
                   encodeVars, loadVars>>

\* The generated batch_id is the key of an existing row: the unique
\* constraint on batch_id makes the commit raise, whatever the request holds.
CreateBatchCollision(b) ==
    /\ b \in DOMAIN batch_predictions
    /\ response' = ErrorResponse(500, DatabaseError)
    /\ UNCHANGED <<models, batch_predictions, job, predictions, serveVars, request,
                   scoreVars, encodeVars, loadVars>>

-----------------------------------------------------------------------------
(* process_batch_predictions *)

\* Lines 540-545: select the row, set status = "processing", commit.
StartBatch(b) ==
    /\ job[b].pc = "queued"
    /\ \E db_ok \in BOOLEAN :
         IF db_ok
         THEN /\ batch_predictions' = [batch_predictions EXCEPT ![b].status = "processing"]
              /\ job' = [job EXCEPT ![b].pc = "loop"]
         ELSE /\ job' = [job EXCEPT ![b].pc = "except", ![b].exc = DatabaseError]
              /\ UNCHANGED batch_predictions
    /\ UNCHANGED <<models, predictions, serveVars, request, response, scoreVars,
                   encodeVars, loadVars>>

\* The per-record "except Exception": log, failed_count += 1, go on.
RecordFailedPropagates(j, e) ==
    [j EXCEPT !.pc = "except", !.exc = e]

RecordFailedUntallied(j, e) ==
    [j EXCEPT !.i = @ + 1]

RecordFailed(j, e) ==
    [j EXCEPT !.failed_count = @ + 1, !.i = @ + 1]

\* Lines 554-577: score, build the Prediction, db.add, processed_count += 1.
RecordProcessed(j, row) ==
    [j EXCEPT !.processed_count = @ + 1, !.i = @ + 1,
              !.pending = Append(@, row)]

BatchModelOfRecord(j, r) == r.model_name

\* Line 556: the model_name handed to ml_service.predict for a record is the
\* task's argument, not the record's own model_name.
BatchModelFor(j, r) == j.model_name

\* One iteration of "for prediction_request in predictions".
ProcessRecord(b) ==
    /\ job[b].pc = "loop"
    /\ job[b].i <= Len(job[b].predictions)
    /\ LET j == job[b]
           r == j.predictions[j.i]
           m == BatchModelFor(j, r)
       IN  IF ~ModelAvailable(m)
           THEN /\ job' = [job EXCEPT ![b] = RecordFailed(j, ModelUnavailable(m))]
                /\ UNCHANGED inferences
           ELSE \E raises \in BOOLEAN :
                  IF raises
                  THEN /\ job' = [job EXCEPT ![b] = RecordFailed(j, ScoringFailed)]
                       /\ UNCHANGED inferences
                  ELSE /\ job' = [job EXCEPT ![b] =
                             RecordProcessed(j,
                                 PredictionRow(<<b, j.i>>, r.patient_id,
                                     PredictSync(ResolveModel(m), r.features,
                                                 r.include_feature_importance)))]
                       /\ inferences' = inferences + 1
    /\ UNCHANGED <<models, batch_predictions, predictions, redis_up, cache,
                   background_tasks, calls, succeeded, request, response, scoreVars,
                   encodeVars, loadVars>>

CompletedRowUnstamped(row, j) ==
    [row EXCEPT !.processed_records = j.processed_count,
                !.failed_records = j.failed_count,
                !.status = "completed"]

\* The row as lines 584-587 leave it.
CompletedRow(row, j) ==
    [row EXCEPT !.processed_records = j.processed_count,
                !.failed_records = j.failed_count,
                !.status = "completed",
                !.completed_at = TRUE]

\* Lines 583-589: write the counters and "completed", commit.  A failed commit
\* rolls the session back: neither the row nor the added predictions persist.
FinishBatch(b) ==
    /\ job[b].pc = "loop"
    /\ job[b].i > Len(job[b].predictions)
    /\ \E commit_ok \in BOOLEAN :
         IF commit_ok
         THEN /\ batch_predictions' =
                    [batch_predictions EXCEPT ![b] = CompletedRow(@, job[b])]
              /\ predictions' = predictions \o job[b].pending
              /\ job' = [job EXCEPT ![b].pc = "done", ![b].pending = << >>]
         ELSE /\ job' = [job EXCEPT ![b].pc = "except", ![b].exc = DatabaseError,
                                    ![b].pending = << >>]
              /\ UNCHANGED <<batch_predictions, predictions>>
    /\ UNCHANGED <<models, serveVars, request, response, scoreVars,
                   encodeVars, loadVars>>

FailedRowRequeues(row, e) ==
    [row EXCEPT !.status = "pending", !.error_message = e]

\* The row as lines 602-604 leave it.
FailedRow(row, e) ==
    [row EXCEPT !.status = "failed", !.error_message = e, !.completed_at = TRUE]

HandleFaultUnkeyed(b) ==
    /\ job[b].pc = "except"
    /\ batch_predictions' =
          [x \in DOMAIN batch_predictions |->
              FailedRow(batch_predictions[x], job[b].exc)]
    /\ job' = [job EXCEPT ![b].pc = "done"]
    /\ UNCHANGED <<models, predictions, serveVars, request, response, scoreVars,
                   encodeVars, loadVars>>

\* Lines 593-607: the outer handler re-reads the row and records the failure;
\* if that raises too, the error is only logged.
HandleFault(b) ==
    /\ job[b].pc = "except"
    /\ \E update_ok \in BOOLEAN :
         IF update_ok
         THEN batch_predictions' =
                 [batch_predictions EXCEPT ![b] = FailedRow(@, job[b].exc)]
         ELSE UNCHANGED batch_predictions
    /\ job' = [job EXCEPT ![b].pc = "done"]
    /\ UNCHANGED <<models, predictions, serveVars, request, response, scoreVars,
                   encodeVars, loadVars>>

BatchStep(b) == StartBatch(b) \/ ProcessRecord(b) \/ FinishBatch(b) \/ HandleFault(b)

-----------------------------------------------------------------------------
(* Cache keys and the Redis keyspace *)

\* features.dict(): the (field, value) pairs in declaration order.
FeaturesDict(features) ==
    [ i \in 1..Len(PatientFeatureFields) |->
        <<PatientFeatureFields[i], features[PatientFeatureFields[i]]>> ]

\* json.dumps(d, sort_keys=True): the pairs of d ordered by key.
JsonDumpsSorted(d) ==
    LET keys == SelectSeq(SortedKeys, LAMBDA k : \E i \in 1..Len(d) : d[i][1] = k)
    IN  [ i \in 1..Len(keys) |->
            d[CHOOSE j \in 1..Len(d) : d[j][1] = keys[i]] ]

\* The fields PatientFeatures declares with Field(...): a body without one
\* of them is rejected.
RequiredFields == { "age", "gender", "admission_type", "time_in_hospital" }

FeaturesHashRequiredOnly(features) ==
    JsonDumpsSorted(SelectSeq(FeaturesDict(features),
                              LAMBDA kv : kv[1] \in RequiredFields))

\* calculate_features_hash: the MD5 digest of json.dumps(features.dict(),
\* sort_keys=True).  The digest stands for its preimage: two texts have the
\* same digest exactly when they are the same text.
FeaturesHash(features) ==
    JsonDumpsSorted(FeaturesDict(features))

\* cache_key("prediction", patient_id, features_hash)
PredictionCacheKey(patient_id, features_hash) ==
    <<"prediction", patient_id, features_hash>>

\* cache_key("patient_history", patient_id)
PatientHistoryCacheKey(patient_id) ==
    <<"patient_history", patient_id, << >> >>

\* get_json: the stored value, or None on a miss and on any Redis error.
Miss == [kind |-> "miss"]

GetJson(key) ==
    IF redis_up /\ key \in DOMAIN cache THEN cache[key] ELSE Miss

\* set_json: setex when Redis answers, otherwise the error is logged.
SetJsonUnguarded(c, key, value) ==
    [k \in DOMAIN c \cup {key} |-> IF k = key THEN value ELSE c[k]]

SetJson(c, key, value) ==
    IF redis_up
    THEN [k \in DOMAIN c \cup {key} |-> IF k = key THEN value ELSE c[k]]
    ELSE c

\* delete: removes the key when Redis answers.
Delete(c, key) ==
    IF redis_up
    THEN [k \in DOMAIN c \ {key} |-> c[k]]
    ELSE c

-----------------------------------------------------------------------------
(* create_prediction *)

\* prediction_id = uuid.uuid4() of the n-th call
PredictionId(n) == <<"prediction", n>>

\* A UUID or a datetime as json.dumps(default=str) writes it, and the value
\* pydantic parses from that string.
JsonString(x) == <<"str", x>>
ParseJsonString(s) == s[2]

\* prediction_result["processing_time_ms"] of the n-th call: what predict
\* measured, a different number for each call.
ElapsedMs(n) == 10 + n

\* PredictionResponse(...) of lines 89-101; created_at is the time of the
\* row's insertion, counted in calls.
PredictionResponse(prediction_id, patient_id, result, created_at) ==
    [ kind                |-> "prediction",
      prediction_id       |-> prediction_id,
      patient_id          |-> patient_id,
      processing_time_ms  |-> ElapsedMs(created_at),
      created_at          |-> created_at,
      risk_score          |-> result.risk_score,
      confidence_interval |-> result.confidence_interval,
      risk_level          |-> result.risk_level,
      model_used          |-> result.model_used,
      model_version       |-> result.model_version,
      has_importance      |-> result.has_importance,
      feature_importance  |-> result.feature_importance ]

ResponseDictRounded(r) ==
    [ kind                |-> "json",
      prediction_id       |-> JsonString(r.prediction_id),
      patient_id          |-> JsonString(r.patient_id),
      processing_time_ms  |-> r.processing_time_ms,
      created_at          |-> JsonString(r.created_at),
      risk_score          |-> (r.risk_score \div 100) * 100,
      confidence_interval |-> r.confidence_interval,
      risk_level          |-> r.risk_level,
      model_used          |-> r.model_used,
      model_version       |-> r.model_version,
      has_importance      |-> r.has_importance,
      feature_importance  |-> r.feature_importance ]

\* response.dict() as json.dumps(value, default=str) stores it
ResponseDict(r) ==
    [ kind                |-> "json",
      prediction_id       |-> JsonString(r.prediction_id),
      patient_id          |-> JsonString(r.patient_id),
      processing_time_ms  |-> r.processing_time_ms,
      created_at          |-> JsonString(r.created_at),
      risk_score          |-> r.risk_score,
      confidence_interval |-> r.confidence_interval,
      risk_level          |-> r.risk_level,
      model_used          |-> r.model_used,
      model_version       |-> r.model_version,
      has_importance      |-> r.has_importance,
      feature_importance  |-> r.feature_importance ]

ResponseFromDictRestamped(d) ==
    [d EXCEPT !.kind = "prediction",
              !.prediction_id = PredictionId(calls + 1),
              !.patient_id = ParseJsonString(@),
              !.created_at = calls + 1]

\* PredictionResponse(**cached_prediction): the UUIDs and the datetime are
\* parsed from their strings.
ResponseFromDict(d) ==
    [d EXCEPT !.kind = "prediction",
              !.prediction_id = ParseJsonString(@),
              !.patient_id = ParseJsonString(@),
              !.created_at = ParseJsonString(@)]

\* The three background_tasks.add_task calls of lines 107-129: the tasks of
\* one response, which run in this order once the response is sent.
TasksOfPrediction(patient_id) ==
    << [task |-> "create_audit_record", patient_id |-> patient_id],
       [task |-> "update_model_performance", patient_id |-> patient_id],
       [task |-> "clear_patient_cache", patient_id |-> patient_id] >>

CreatePrediction(patient_id, features, model_name, include_feature_importance) ==
    /\ calls < MaxCalls
    /\ calls' = calls + 1
    /\ request' = [ kind |-> "predict", patient_id |-> patient_id,
                    features |-> features, model_name |-> model_name,
                    include_feature_importance |-> include_feature_importance,
                    limit |-> 0, offset |-> 0, batch_id |-> None ]
    /\ LET key    == PredictionCacheKey(patient_id, FeaturesHash(features))
           cached == GetJson(key)
           id     == PredictionId(calls + 1)
           result == PredictSync(ResolveModel(model_name), features,
                                 include_feature_importance)
           answer == PredictionResponse(id, patient_id, result, calls + 1)
       IN  IF cached # Miss
           THEN \* lines 56-58: the cached response is returned
                /\ response' = ResponseFromDict(cached)
                /\ succeeded' = [succeeded EXCEPT ![patient_id] = @ + 1]
                /\ UNCHANGED <<predictions, cache, background_tasks, inferences>>
           ELSE IF ~ModelAvailable(model_name)
           THEN \* predict raised ValueError: lines 134-139
                /\ response' = ErrorResponse(500, ModelUnavailable(model_name))
                /\ UNCHANGED <<predictions, cache, background_tasks, inferences,
                               succeeded>>
           ELSE \E db_ok \in BOOLEAN :
                  /\ inferences' = inferences + 1
                  /\ IF db_ok
                     THEN /\ predictions' =
                                Append(predictions, PredictionRow(id, patient_id, result))
                          /\ response' = answer
                          /\ cache' = SetJson(cache, key, ResponseDict(answer))
                          /\ background_tasks' =
                                Append(background_tasks, TasksOfPrediction(patient_id))
                          /\ succeeded' = [succeeded EXCEPT ![patient_id] = @ + 1]
                     ELSE \* db.commit raised: lines 134-139
                          /\ response' = ErrorResponse(500, DatabaseError)
                          /\ UNCHANGED <<predictions, cache, background_tasks, succeeded>>
    /\ UNCHANGED <<models, batchVars, redis_up, scoreVars, encodeVars, loadVars>>

RECURSIVE RunTasks(_, _)
\* The tasks of one response, in order: create_audit_record and
\* update_model_performance touch nothing modelled here, clear_patient_cache
\* deletes the patient's history key.
RunTasks(c, tasks) ==
    IF tasks = << >> THEN c
    ELSE RunTasks(IF Head(tasks).task = "clear_patient_cache"
                  THEN Delete(c, PatientHistoryCacheKey(Head(tasks).patient_id))
                  ELSE c,
                  Tail(tasks))

\* The background tasks of the oldest answered request run.
RunBackgroundTask ==
    /\ background_tasks # << >>
    /\ background_tasks' = Tail(background_tasks)
    /\ cache' = RunTasks(cache, Head(background_tasks))
    /\ UNCHANGED <<models, batchVars, predictions, redis_up, inferences, calls,
                   succeeded, request, response, scoreVars,
                   encodeVars, loadVars>>

-----------------------------------------------------------------------------
(* get_patient_predictions *)

\* The PredictionResponse built from a stored row (lines 265-280)
ResponseOfRow(row) ==
    [ kind                |-> "prediction",
      prediction_id       |-> row.id,
      patient_id          |-> row.patient_id,
      risk_score          |-> row.risk_score,
      confidence_interval |-> <<row.confidence_interval_lower,
                                row.confidence_interval_upper>>,
      risk_level          |-> row.risk_level,
      model_used          |-> row.model_name,
      model_version       |-> row.model_version,
      has_importance      |-> row.feature_importance # << >>,
      feature_importance  |-> row.feature_importance ]

RECURSIVE RowsOf(_, _)
\* select(Prediction).where(patient_id == ...).order_by(desc(created_at)):
\* the patient's rows, newest first.
RowsOf(rows, patient_id) ==
    IF rows = << >> THEN << >>
    ELSE LET rest == RowsOf(Tail(rows), patient_id)
         IN  IF Head(rows).patient_id = patient_id
             THEN Append(rest, Head(rows))
             ELSE rest

\* seq[offset : offset + limit]
Slice(seq, offset, limit) ==
    SubSeq(seq, offset + 1, Min(Len(seq), offset + limit))

HistoryResponse(patient_id, total, page) ==
    [ kind |-> "history", patient_id |-> patient_id,
      total_predictions |-> total, predictions |-> page ]

GetPatientPredictions(patient_id, limit, offset) ==
    /\ request' = [ kind |-> "history", patient_id |-> patient_id,
                    features |-> FeaturesA, model_name |-> None,
                    include_feature_importance |-> FALSE,
                    limit |-> limit, offset |-> offset, batch_id |-> None ]
    /\ LET key    == PatientHistoryCacheKey(patient_id)
           cached == GetJson(key)
           rows   == RowsOf(predictions, patient_id)
           page   == [k \in 1..Len(Slice(rows, offset, limit)) |->
                         ResponseOfRow(Slice(rows, offset, limit)[k])]
       IN  IF cached # Miss
           THEN \* lines 230-237: pagination applied to the cached list
                /\ response' = HistoryResponse(patient_id, cached.total_predictions,
                                   Slice(cached.predictions, offset, limit))
                /\ UNCHANGED cache
           ELSE /\ response' = HistoryResponse(patient_id, Len(rows), page)
                /\ cache' = IF offset = 0
                            THEN SetJson(cache, key,
                                   [ kind |-> "json", total_predictions |-> Len(rows),
                                     predictions |-> page ])
                            ELSE cache
    /\ UNCHANGED <<models, batchVars, predictions, redis_up, background_tasks,
                   inferences, calls, succeeded, scoreVars,
                   encodeVars, loadVars>>

-----------------------------------------------------------------------------
(* get_batch_prediction *)

NotFound == "Batch prediction not found"
RetrievalError == "Error retrieving batch prediction"

\* BatchPredictionResponse of lines 426-437
BatchStatus(b, row, preds) ==
    [ kind              |-> "batch_status",
      batch_id          |-> b,
      status            |-> row.status,
      total_records     |-> row.total_records,
      processed_records |-> row.processed_records,
      failed_records    |-> row.failed_records,
      model_name        |-> row.model_name,
      error_message     |-> row.error_message,
      predictions       |-> preds ]

\* Lines 379-448.  For a completed job line 396 evaluates
\* Prediction.batch_id; the Prediction model has no such column (nor does
\* process_batch_predictions store a batch id on the rows it adds), so the
\* expression raises AttributeError and the generic handler answers 500.
GetBatchPrediction(b) ==
    /\ request' = [NoRequest EXCEPT !.kind = "get_batch", !.batch_id = b]
    /\ response' =
          IF b \notin DOMAIN batch_predictions
          THEN ErrorResponse(404, NotFound)
          ELSE IF batch_predictions[b].status = "completed"
          THEN ErrorResponse(500, RetrievalError)
          ELSE BatchStatus(b, batch_predictions[b], None)
    /\ UNCHANGED <<models, batchVars, predictions, serveVars, scoreVars, encodeVars, loadVars>>

-----------------------------------------------------------------------------
(* The Redis connection *)

\* RedisCache.connect: the client exists and answers.
Connect ==
    /\ ~redis_up
    /\ redis_up' = TRUE
    /\ UNCHANGED <<models, batchVars, predictions, cache, background_tasks,
                   inferences, calls, succeeded, request, response, scoreVars,
                   encodeVars, loadVars>>

\* RedisCache.disconnect, or Redis stops answering: every operation raises
\* inside the wrapper and is logged.
Disconnect ==
    /\ redis_up
    /\ redis_up' = FALSE
    /\ UNCHANGED <<models, batchVars, predictions, cache, background_tasks,
                   inferences, calls, succeeded, request, response, scoreVars,
                   encodeVars, loadVars>>

\* setex: an entry expires when its time-to-live has passed.
Expire(key) ==
    /\ key \in DOMAIN cache
    /\ cache' = [k \in DOMAIN cache \ {key} |-> cache[k]]
    /\ UNCHANGED <<models, batchVars, predictions, redis_up, background_tasks,
                   inferences, calls, succeeded, request, response, scoreVars,
                   encodeVars, loadVars>>

-----------------------------------------------------------------------------
(* MLService on one request body: fingerprint, encoding, scoring *)

\* Lines 51-52 of create_prediction: the cache key of the parsed request.
HashStep ==
    /\ computed.pc = "idle"
    /\ computed' =
          [computed EXCEPT !.pc = "hashed",
                           !.key = PredictionCacheKey(supplied.patient_id,
                                       FeaturesHash(ParseFeatures(supplied.pairs)))]
    /\ UNCHANGED <<models, batchVars, predictions, serveVars, request, response,
                   scoreVars, supplied, loadVars>>

\* predict, line 235: the frame _preprocess_features builds.
PreprocessStep ==
    /\ computed.pc = "hashed"
    /\ computed' =
          [computed EXCEPT !.pc = "encoded",
                           !.encoded = PreprocessFeatures(ParseFeatures(supplied.pairs))]
    /\ UNCHANGED <<models, batchVars, predictions, serveVars, request, response,
                   scoreVars, supplied, loadVars>>

\* predict, lines 238-247: _predict_sync on the frame; predict_proba raises
\* on a column that is not numeric.
PredictStep ==
    /\ computed.pc = "encoded"
    /\ \E m \in DOMAIN models, fi \in BOOLEAN :
         LET features == ParseFeatures(supplied.pairs) IN
         computed' =
            [computed EXCEPT
               !.pc = "done",
               !.result =
                  IF AllNumeric(computed.encoded)
                  THEN [ kind |-> "result", model_name |-> m,
                         include_feature_importance |-> fi,
                         result |-> PredictSync(m, features, fi) ]
                  ELSE [ kind |-> "error", model_name |-> m,
                         include_feature_importance |-> fi,
                         result |-> ScoringFailed ]]
    /\ UNCHANGED <<models, batchVars, predictions, serveVars, request, response,
                   scoreVars, supplied, loadVars>>

-----------------------------------------------------------------------------
(* The tier derivation on its own *)

ScoreStep ==
    /\ scored.kind = "none"
    /\ \E m \in DOMAIN models, f \in FeatureRecords, fi \in BOOLEAN :
         LET result == AssembleResult(score, m, f, fi)
             answer == PredictionResponse(PredictionId(1), "p1", result, 1)
         IN  scored' = [ kind   |-> "result",
                         result |-> result,
                         row    |-> PredictionRow(PredictionId(1), "p1", result),
                         cached |-> ResponseFromDict(ResponseDict(answer)) ]
    /\ UNCHANGED <<models, batch_predictions, predictions, job, serveVars,
                   request, response, score, encodeVars, loadVars>>

-----------------------------------------------------------------------------
(* Specifications *)

\* MLService.models after _load_models: every model, or the models left
\* when loading one of them failed.
Registries ==
    { LoadedModels, [m \in {"lightgbm"} |-> LoadedModels[m]] }

NoSupplied == [patient_id |-> "p1", pairs |-> << >>]
NoComputed ==
    [ pc |-> "idle", key |-> << >>, encoded |-> << >>, result |-> [kind |-> "none"] ]

\* The registry of the other specifications is the result of a finished
\* _load_models.
RegistryLoaded ==
    /\ artifacts = << >>
    /\ loading = Len(model_configs) + 1

InitCommon ==
    /\ batch_predictions = << >>
    /\ predictions = << >>
    /\ job = [b \in BatchIds |-> IdleJob]
    /\ redis_up = FALSE
    /\ cache = << >>
    /\ background_tasks = << >>
    /\ request = NoRequest
    /\ response = NoResponse
    /\ inferences = 0
    /\ calls = 0
    /\ succeeded = [p \in Patients |-> 0]
    /\ scored = [kind |-> "none"]
    /\ computed = NoComputed

Init ==
    /\ InitCommon
    /\ RegistryLoaded
    /\ models \in Registries
    /\ score = 0
    /\ supplied = NoSupplied

InitScore ==
    /\ InitCommon
    /\ RegistryLoaded
    /\ models \in Registries
    /\ score \in 0..ScoreMax
    /\ supplied = NoSupplied

Next ==
    \/ \E b \in BatchIds, preds \in BatchLists, m \in {None, "lightgbm"} :
          CreateBatch(b, preds, m)
    \/ \E b \in BatchIds : CreateBatchCollision(b)
    \/ \E b \in BatchIds : StartBatch(b)
    \/ \E b \in BatchIds : ProcessRecord(b)
    \/ \E b \in BatchIds : FinishBatch(b)
    \/ \E b \in BatchIds : HandleFault(b)

Spec == Init /\ [][Next]_vars

\* A queued background task is run by the event loop, and each await of the
\* task returns: every step of process_batch_predictions is eventually taken.
FairSpec == Spec /\ \A b \in BatchIds : WF_vars(BatchStep(b))

\* The PredictionRequest values drawn: patient p1 with features A under
\* the default model, xgboost, and lightgbm without feature importance;
\* patient p1 with features B; and patient p2 with features p1 sends too.
PredictionRequests ==
    { [ patient_id |-> "p1", features |-> FeaturesA, model_name |-> None,
        include_feature_importance |-> TRUE ],
      [ patient_id |-> "p1", features |-> FeaturesA, model_name |-> "xgboost",
        include_feature_importance |-> TRUE ],
      [ patient_id |-> "p1", features |-> FeaturesA, model_name |-> "lightgbm",
        include_feature_importance |-> FALSE ],
      [ patient_id |-> "p1", features |-> FeaturesB, model_name |-> "lightgbm",
        include_feature_importance |-> TRUE ],
      [ patient_id |-> "p2", features |-> FeaturesA, model_name |-> "lightgbm",
        include_feature_importance |-> TRUE ] }

Limits == {DefaultLimit}
Offsets == {0}

NextServe ==
    \/ \E r \in PredictionRequests :
          CreatePrediction(r.patient_id, r.features, r.model_name,
                           r.include_feature_importance)
    \/ RunBackgroundTask
    \/ \E p \in Patients, limit \in Limits, offset \in Offsets :
          GetPatientPredictions(p, limit, offset)
    \/ Connect
    \/ Disconnect
    \/ \E key \in DOMAIN cache : Expire(key)

SpecServe == Init /\ [][NextServe]_vars

\* Batches next to single predictions of the patient and features of the
\* first batch record, with the cache connected at some point.
BatchServeRequests ==
    { r \in PredictionRequests :
        /\ r.patient_id = BatchRecordAt(1).patient_id
        /\ r.features = BatchRecordAt(1).features
        /\ r.model_name \in {None, "lightgbm"} }

NextBatchServe ==
    \/ Connect
    \/ \E r \in BatchServeRequests :
          CreatePrediction(r.patient_id, r.features, r.model_name,
                           r.include_feature_importance)
    \/ \E preds \in BatchLists, m \in {None, "lightgbm"} : CreateBatch("b1", preds, m)
    \/ StartBatch("b1")
    \/ ProcessRecord("b1")
    \/ FinishBatch("b1")
    \/ HandleFault("b1")
    \/ \E b \in BatchIds : GetBatchPrediction(b)

SpecBatchServe == Init /\ [][NextBatchServe]_vars

NextScore == ScoreStep

SpecScore == InitScore /\ [][NextScore]_vars

\* Request bodies: the required fields, two fields with fixed values and
\* any of four optional fields; gender and insulin also take a label the
\* encoders were not fitted with.
SuppliedBodies ==
    { [ f \in RequiredFields \cup {"diag_1", "change"} \cup optional |->
          CASE f = "age" -> age
            [] f = "gender" -> gender
            [] f = "admission_type" -> Num(1)
            [] f = "time_in_hospital" -> Num(3)
            [] f = "diag_1" -> Str("250.00")
            [] f = "change" -> Str("No")
            [] f = "insulin" -> insulin
            [] f = "weight" -> Num(80)
            [] f = "glyburide_metformin" -> Str("Steady")
            [] f = "age_grouped" -> Str("[60-70)") ] :
        age \in {Num(65), Num(70)}, gender \in {Str("Male"), Str("Other")},
        insulin \in {Str("Up"), Str("Maybe")},
        optional \in SUBSET {"insulin", "weight", "glyburide_metformin", "age_grouped"} }

\* Each body with its fields in declaration order and in the reverse order.
SuppliedRequests ==
    { [patient_id |-> p, pairs |-> PairsOf(body, names)] :
        p \in Patients, body \in SuppliedBodies,
        names \in {PatientFeatureFields, Reverse(PatientFeatureFields)} }

\* Importance arrays an estimator may hold: one value per column with ties,
\* all values equal, and an array shorter than the frame.
ImportanceVectors ==
    { [i \in Columns |-> (a * i + b) % m] : a \in {1, 3}, b \in {0, 2}, m \in {1, 5} }
    \cup { [i \in 1..3 |-> i] }

\* Estimators by what they expose: feature_importances_, coef_ (signed),
\* neither (random numbers are drawn), or an attribute that raises.
ModelHandles ==
    { [capability |-> "feature_importances_", importances |-> v, random |-> << >>,
       raises |-> FALSE] : v \in ImportanceVectors }
    \cup { [capability |-> "coef_", importances |-> [i \in Columns |-> ((4 * i) % 7) - 3],
            random |-> << >>, raises |-> FALSE],
           [capability |-> "none", importances |-> << >>,
            random |-> [i \in Columns |-> (7 * i) % 4], raises |-> FALSE],
           [capability |-> "feature_importances_",
            importances |-> [i \in Columns |-> i], random |-> << >>, raises |-> TRUE] }

InitEncode ==
    /\ InitCommon
    /\ RegistryLoaded
    /\ models \in { [m \in {DEFAULT_MODEL} |-> h] : h \in ModelHandles }
    /\ score = 0
    /\ supplied \in SuppliedRequests

NextEncode == HashStep \/ PreprocessStep \/ PredictStep

SpecEncode == InitEncode /\ [][NextEncode]_vars

-----------------------------------------------------------------------------
(* History pages: create_prediction, its background tasks and
   get_patient_predictions with several page sizes and offsets *)

HistoryLimits == {1, DefaultLimit}
HistoryOffsets == {0, 1}

HistoryRequests == { r \in PredictionRequests : r.model_name = "lightgbm" }

NextHistory ==
    \/ Connect
    \/ \E r \in HistoryRequests :
          CreatePrediction(r.patient_id, r.features, r.model_name,
                           r.include_feature_importance)
    \/ RunBackgroundTask
    \/ \E p \in Patients, l \in HistoryLimits, o \in HistoryOffsets :
          GetPatientPredictions(p, l, o)

SpecHistory == Init /\ [][NextHistory]_vars

\* History requests next to single predictions and a batch job.
NextBatchHistory ==
    \/ Connect
    \/ \E r \in { h \in HistoryRequests : h.patient_id = BatchRecordAt(1).patient_id } :
          CreatePrediction(r.patient_id, r.features, r.model_name,
                           r.include_feature_importance)
    \/ RunBackgroundTask
    \/ \E preds \in BatchLists : CreateBatch("b1", preds, "lightgbm")
    \/ StartBatch("b1")
    \/ ProcessRecord("b1")
    \/ FinishBatch("b1")
    \/ HandleFault("b1")
    \/ \E p \in Patients : GetPatientPredictions(p, DefaultLimit, 0)

SpecBatchHistory == Init /\ [][NextBatchHistory]_vars

-----------------------------------------------------------------------------
(* Request validation at the HTTP boundary: the bodies are parsed into
   PredictionRequest and BatchPredictionRequest before a handler runs *)

MaxItems == 1000

\* ge / le of the numeric fields of PatientFeatures
FieldBounds ==
    [ age |-> <<0, 150>>, weight |-> <<0, 500>>, admission_type |-> <<1, 8>>,
      time_in_hospital |-> <<1, 14>> ]

ValidFeaturesUnbounded(features) ==
    \A f \in RequiredFields : features[f].t # "none"

\* PatientFeatures(**body): required fields present, numbers within ge / le.
ValidFeatures(features) ==
    /\ \A f \in RequiredFields : features[f].t # "none"
    /\ \A f \in DOMAIN FieldBounds :
          features[f].t # "none" =>
              /\ features[f].t = "num"
              /\ features[f].v >= FieldBounds[f][1]
              /\ features[f].v <= FieldBounds[f][2]

\* PredictionRequest(**body): patient_id parses as a UUID, features validate,
\* model_name is a member of ModelType or absent.
ValidPredictionRequest(r) ==
    /\ r.patient_id \in Patients
    /\ ValidFeatures(r.features)
    /\ r.model_name \in ModelType \cup {None}

\* BatchPredictionRequest(**body): every item validates, max_items = 1000,
\* validate_predictions_not_empty.
ValidBatchRequest(body) ==
    /\ Len(body.predictions) <= MaxItems
    /\ body.predictions # << >>
    /\ \A k \in 1..Len(body.predictions) : ValidPredictionRequest(body.predictions[k])
    /\ body.model_name \in ModelType \cup {None}

\* The 422 answer FastAPI gives for a body that does not validate.
ValidationError == ErrorResponse(422, "validation error")

\* Bodies posted to /predictions/: valid ones, and ones with a patient_id
\* that is no UUID, an age above le, a missing required field, an unknown model.
PostedPredictions ==
    { [ patient_id |-> p, features |-> f, model_name |-> m,
        include_feature_importance |-> TRUE ] :
        p \in {"p1", "invalid-uuid"},
        f \in { FeaturesA, [FeaturesA EXCEPT !.age = Num(200)],
                [FeaturesA EXCEPT !.gender = NoneValue] },
        m \in {"lightgbm", "resnet"} }

\* Bodies posted to /predictions/batch: lists of 0, 1..MaxBatchSize and
\* MaxItems + 1 valid items, and a list holding an invalid item.
PostedBatches ==
    { [ predictions |-> [k \in 1..n |-> BatchRecordAt(k)], model_name |-> m ] :
        n \in {0} \cup (1..MaxBatchSize) \cup {MaxItems + 1},
        m \in {None} }
    \cup { [ predictions |-> << [BatchRecordAt(1) EXCEPT !.features.age = Num(200)] >>,
             model_name |-> None ] }

\* POST /predictions/
PostPrediction(body) ==
    IF ValidPredictionRequest(body)
    THEN CreatePrediction(body.patient_id, body.features, body.model_name,
                          body.include_feature_importance)
    ELSE /\ request' = [ kind |-> "predict", patient_id |-> body.patient_id,
                         features |-> body.features, model_name |-> body.model_name,
                         include_feature_importance |-> body.include_feature_importance,
                         limit |-> 0, offset |-> 0, batch_id |-> None ]
         /\ response' = ValidationError
         /\ UNCHANGED <<models, batchVars, predictions, serveVars, scoreVars,
                        encodeVars, loadVars>>

\* POST /predictions/batch; b is the batch_id the handler would generate.
PostBatch(b, body) ==
    IF ValidBatchRequest(body)
    THEN CreateBatch(b, body.predictions, body.model_name) \/ CreateBatchCollision(b)
    ELSE /\ request' = [ kind |-> "batch", predictions |-> body.predictions,
                         model_name |-> body.model_name ]
         /\ response' = ValidationError
         /\ UNCHANGED <<models, batchVars, predictions, serveVars, scoreVars,
                        encodeVars, loadVars>>

NextValidate ==
    \/ Connect
    \/ \E body \in PostedPredictions : PostPrediction(body)
    \/ \E body \in PostedBatches : PostBatch("b1", body)

SpecValidate == Init /\ [][NextValidate]_vars

-----------------------------------------------------------------------------
(* Registry initialisation *)

\* One iteration of the loop of _load_models (lines 80-94).
LoadModel ==
    /\ loading <= Len(model_configs)
    /\ LET model_name == model_configs[loading]
           file == artifacts[model_name]
       IN  models' =
               CASE file.kind = "file" -> Register(models, model_name, file.model)
                 [] file.kind = "missing" ->
                        Register(models, model_name, CreateDummyModel(model_name))
                 [] OTHER -> models
    /\ loading' = loading + 1
    /\ UNCHANGED <<batchVars, predictions, serveVars, request, response, scoreVars,
                   encodeVars, artifacts>>

ArtifactStates ==
    { a \in [ Range(model_configs) ->
                UNION { ArtifactFiles(m) : m \in Range(model_configs) } ] :
        \A m \in Range(model_configs) : a[m] \in ArtifactFiles(m) }

InitLoad ==
    /\ InitCommon
    /\ models = << >>
    /\ artifacts \in ArtifactStates
    /\ loading = 1
    /\ score = 0
    /\ supplied = NoSupplied

NextLoad == LoadModel

SpecLoad == InitLoad /\ [][NextLoad]_vars

-----------------------------------------------------------------------------
(* Batch job state machine *)

Row(b) == batch_predictions[b]

Accounted(b) ==
    /\ Row(b).status = "completed"
    /\ Row(b).processed_records + Row(b).failed_records = Len(job[b].predictions)

\* C1 as stated: whenever process_batch_predictions has finished for a batch
\* of N records, the job is completed and processed_records + failed_records
\* = N.
C1_AlwaysCompleted ==
    \A b \in DOMAIN batch_predictions :
        job[b].pc = "done" => Accounted(b)

\* C1, amended: every queued batch of N >= 1 records is eventually finished,
\* and unless an orchestrator-level fault (a failure reading or persisting
\* the job record) was raised, it is then completed with processed_records +
\* failed_records = N, also when every record failed.
C1_BatchAccounting ==
    \A b \in BatchIds :
        (job[b].pc = "queued") ~>
            (job[b].pc = "done" /\ (job[b].exc = NoError => Accounted(b)))

C1_Witness ==
    \E b \in DOMAIN batch_predictions :
        /\ job[b].pc = "done" /\ job[b].exc = NoError
        /\ Accounted(b)
        /\ Len(job[b].predictions) = MaxBatchSize
        /\ Row(b).failed_records = MaxBatchSize

\* C2: a record's failure is tallied and never fails the job.  A job is
\* failed only after a database error reached the outer handler; while the
\* loop runs every failed record is in failed_count; a job finished without a
\* database error is completed with that tally, and with failed_records =
\* total_records when its model is not registered (every record fails).
C2_RecordFailuresAreTallied ==
    \A b \in DOMAIN batch_predictions :
        /\ Row(b).status = "failed" => job[b].exc = DatabaseError
        /\ job[b].pc = "loop" =>
              job[b].failed_count = (job[b].i - 1) - Len(job[b].pending)
        /\ (job[b].pc = "done" /\ job[b].exc = NoError) =>
              /\ Row(b).status = "completed"
              /\ Row(b).failed_records = job[b].failed_count
              /\ job[b].processed_count + job[b].failed_count = Row(b).total_records
              /\ ~ModelAvailable(job[b].model_name) =>
                    Row(b).failed_records = Row(b).total_records

C2_Witness ==
    \E b \in DOMAIN batch_predictions :
        /\ ~ModelAvailable(job[b].model_name)
        /\ Row(b).status = "completed"
        /\ Row(b).total_records = MaxBatchSize
        /\ Row(b).failed_records = Row(b).total_records

StatusSteps(allowed) ==
    \A b \in BatchIds :
        /\ (b \notin DOMAIN batch_predictions /\ b \in DOMAIN batch_predictions') =>
              batch_predictions'[b].status = "pending"
        /\ b \in DOMAIN batch_predictions =>
              /\ b \in DOMAIN batch_predictions'
              /\ \/ batch_predictions'[b].status = Row(b).status
                 \/ <<Row(b).status, batch_predictions'[b].status>> \in allowed

\* C3 as stated: the persisted status moves only pending -> processing,
\* processing -> completed, processing -> failed.
C3_ThreeTransitions ==
    [][ StatusSteps({ <<"pending", "processing">>, <<"processing", "completed">>,
                      <<"processing", "failed">> }) ]_vars

\* C3, amended: the persisted status moves only pending -> processing,
\* processing -> completed, processing -> failed and pending -> failed (a
\* fault before "processing" was persisted); it never moves backwards, and a
\* completed or failed job keeps its status.
C3_ForwardOnly ==
    [][ StatusSteps({ <<"pending", "processing">>, <<"processing", "completed">>,
                      <<"processing", "failed">>, <<"pending", "failed">> }) ]_vars

C3_Witness ==
    \E b \in DOMAIN batch_predictions :
        /\ Row(b).status = "failed"
        /\ job[b].pc = "done"
        /\ job[b].i = 1

\* C4: once process_batch_predictions has finished, the job is completed or
\* failed, and after an orchestrator-level fault it is failed with an error
\* message and completed_at set.
C4_FaultIsRecorded ==
    \A b \in DOMAIN batch_predictions :
        job[b].pc = "done" =>
            /\ Row(b).status \in {"completed", "failed"}
            /\ job[b].exc # NoError =>
                  /\ Row(b).status = "failed"
                  /\ Row(b).error_message # NoError
                  /\ Row(b).completed_at

\* C5: a successful create_batch_prediction adds exactly one row, pending,
\* with total_records = N and both counters 0, answers with the view of that
\* row while the task is still queued, and leaves every other row alone;
\* total_records of an existing row never changes.
C5_SubmitCreatesPendingJob ==
    [][ /\ \A b \in BatchIds :
              (b \notin DOMAIN batch_predictions /\ b \in DOMAIN batch_predictions') =>
                  /\ DOMAIN batch_predictions' = DOMAIN batch_predictions \cup {b}
                  /\ \A x \in DOMAIN batch_predictions :
                        batch_predictions'[x] = batch_predictions[x]
                  /\ batch_predictions'[b].status = "pending"
                  /\ batch_predictions'[b].total_records = Len(job'[b].predictions)
                  /\ batch_predictions'[b].total_records >= 1
                  /\ batch_predictions'[b].processed_records = 0
                  /\ batch_predictions'[b].failed_records = 0
                  /\ response' = BatchView(b, batch_predictions'[b])
                  /\ job'[b].pc = "queued"
                  /\ job'[b].i = 1
                  /\ job'[b].pending = << >>
        /\ (response' # response /\ response'.kind = "batch") =>
              /\ response'.batch_id \notin DOMAIN batch_predictions
              /\ response'.batch_id \in DOMAIN batch_predictions'
        /\ \A b \in DOMAIN batch_predictions :
              /\ b \in DOMAIN batch_predictions'
              /\ batch_predictions'[b].total_records = Row(b).total_records
      ]_vars

C5_Witness ==
    /\ response.kind = "batch"
    /\ response.status = "pending"
    /\ response.total_records = MaxBatchSize
    /\ response.batch_id \in DOMAIN batch_predictions
    /\ job[response.batch_id].pc = "queued"
    /\ \E b \in DOMAIN batch_predictions : Row(b).status = "completed"

-----------------------------------------------------------------------------
(* Single predictions and the cache *)

RequestKey(r) == PredictionCacheKey(r.patient_id, FeaturesHash(r.features))

SameScore(a, b) ==
    /\ a.risk_score = b.risk_score
    /\ a.confidence_interval = b.confidence_interval

\* C6: with the cache answering, a predict call that is scored leaves its
\* response under the key of (patient, features), and a predict call that
\* finds an entry under that key returns the entry's risk_score and
\* confidence_interval without running the model: the same call issued
\* twice in sequence gets identical values, the second from the cache.
C6_CacheIdempotence ==
    [][ (calls' = calls + 1 /\ redis_up) =>
          LET key == RequestKey(request') IN
          /\ key \in DOMAIN cache =>
                /\ response'.kind = "prediction"
                /\ SameScore(response', cache[key])
                /\ inferences' = inferences
                /\ cache' = cache
          /\ (key \notin DOMAIN cache /\ response'.kind = "prediction") =>
                /\ inferences' = inferences + 1
                /\ key \in DOMAIN cache'
                /\ SameScore(cache'[key], response')
                /\ response'.risk_score =
                      PredictProba(response'.model_used, request'.features)
      ]_vars

C6_Witness ==
    /\ calls = 2
    /\ inferences = 1
    /\ redis_up
    /\ succeeded["p1"] = 2
    /\ response.kind = "prediction"
    /\ RequestKey(request) \in DOMAIN cache
    /\ SameScore(response, cache[RequestKey(request)])

\* C7: a successful predict call that names a model M is answered with
\* model_used = M, and with feature importance when it asked for it.
C7_NamedModelIsUsed ==
    (request.kind = "predict" /\ response.kind = "prediction"
                              /\ request.model_name # None) =>
        /\ response.model_used = request.model_name
        /\ request.include_feature_importance => response.has_importance

\* C8: with every background task run, getHistory for a subject with k
\* successful predict calls (k within the page limit) reports
\* total_predictions = k and returns k predictions.
C8_HistoryCountsCalls ==
    ( /\ request.kind = "history" /\ response.kind = "history"
      /\ request.offset = 0
      /\ succeeded[request.patient_id] <= request.limit
      /\ background_tasks = << >> ) =>
        /\ response.total_predictions = succeeded[request.patient_id]
        /\ Len(response.predictions) = succeeded[request.patient_id]

\* C9: a predict call whose requested (or default) model is not registered
\* is answered with the prediction failure and changes neither the
\* predictions table, nor the cache, nor the queued background tasks.
C9_UnavailableModelFails ==
    [][ (calls' = calls + 1 /\ ~ModelAvailable(request'.model_name)) =>
          /\ response'.kind = "error"
          /\ response'.status_code = 500
          /\ predictions' = predictions
          /\ cache' = cache
          /\ background_tasks' = background_tasks
      ]_vars

-----------------------------------------------------------------------------
(* Risk tier *)

\* C10: the tier of a score p is Low below 0.3, Medium from 0.3 to below
\* 0.7 and High from 0.7, so 0.2999 and 0.0 are Low, 0.3 and 0.6999 Medium,
\* 0.7 and 1.0 High; it is always one of Low, Medium, High.
C10_RiskTier ==
    scored.kind = "result" =>
        LET t == scored.result.risk_level IN
        /\ scored.result.risk_score = score
        /\ t \in {"Low", "Medium", "High"}
        /\ t = "Low" <=> score < 3000
        /\ t = "Medium" <=> (3000 <= score /\ score < 7000)
        /\ t = "High" <=> score >= 7000
        /\ score \in {0, 2999} => t = "Low"
        /\ score \in {3000, 6999} => t = "Medium"
        /\ score \in {7000, 10000} => t = "High"

C10_Witness ==
    /\ scored.kind = "result"
    /\ score = 3000
    /\ scored.result.risk_level = "Medium"

\* The band of a score as the claim states it: [max(0, p - 0.05),
\* min(1, p + 0.05)] around p, inside [0, 1].
IsBandOf(lower, upper, p) ==
    /\ lower = (IF p >= 500 THEN p - 500 ELSE 0)
    /\ upper = (IF p <= 9500 THEN p + 500 ELSE 10000)
    /\ 0 <= lower /\ lower <= p /\ p <= upper /\ upper <= 10000

\* C11: for every score p in [0, 1] the confidence band of the result
\* _predict_sync assembles, of the Prediction row stored for it and of the
\* response read back from its cache entry is [max(0, p - 0.05),
\* min(1, p + 0.05)], so 0 <= lower <= p <= upper <= 1.
C11_ConfidenceBand ==
    scored.kind = "result" =>
        /\ scored.result.risk_score = score
        /\ IsBandOf(scored.result.confidence_interval[1],
                    scored.result.confidence_interval[2], score)
        /\ scored.row.risk_score = score
        /\ IsBandOf(scored.row.confidence_interval_lower,
                    scored.row.confidence_interval_upper, score)
        /\ scored.cached.risk_score = score
        /\ IsBandOf(scored.cached.confidence_interval[1],
                    scored.cached.confidence_interval[2], score)

C11_Witness ==
    /\ scored.kind = "result"
    /\ score = 9750
    /\ scored.cached.confidence_interval = <<9250, 10000>>
    /\ scored.row.confidence_interval_upper = 10000

-----------------------------------------------------------------------------
(* Fingerprint, encoding and feature contributions *)

KeyOfRequest(r) ==
    PredictionCacheKey(r.patient_id, FeaturesHash(ParseFeatures(r.pairs)))

\* Two bodies are value-equal when they hold the same (field, value) pairs.
ValueEqual(a, b) == Range(a) = Range(b)

\* C12: the cache key of (patient id, feature record) is the key of every
\* request with the same patient id and a value-equal record, whatever the
\* order its fields were supplied in, and of no request whose patient id or
\* whose value of some field differs.
C12_KeyStability ==
    computed.pc = "hashed" =>
        \A o \in SuppliedRequests :
            (KeyOfRequest(o) = computed.key)
                <=> (o.patient_id = supplied.patient_id
                     /\ ValueEqual(o.pairs, supplied.pairs))

C12_Witness ==
    /\ computed.pc = "hashed"
    /\ supplied.pairs[1][1] # "age"
    /\ \E o \in SuppliedRequests :
          /\ o.pairs # supplied.pairs
          /\ KeyOfRequest(o) = computed.key

SuppliedFields == { supplied.pairs[i][1] : i \in 1..Len(supplied.pairs) }

SuppliedValue(f) ==
    supplied.pairs[CHOOSE i \in 1..Len(supplied.pairs) : supplied.pairs[i][1] = f][2]

\* C13: the encoded vector of a valid record has exactly one entry per
\* feature of REQUIRED_FEATURES, in that order, and no entry for an input
\* field that is not in REQUIRED_FEATURES.
C13_VectorFollowsSchema ==
    computed.pc \in {"encoded", "done"} =>
        /\ Len(computed.encoded) = Len(REQUIRED_FEATURES)
        /\ \A i \in 1..Len(computed.encoded) :
              computed.encoded[i].name = REQUIRED_FEATURES[i]
        /\ \A f \in SuppliedFields \ Range(REQUIRED_FEATURES) :
              \A i \in 1..Len(computed.encoded) : computed.encoded[i].name # f

C13_Witness ==
    /\ computed.pc = "encoded"
    /\ "glyburide_metformin" \in SuppliedFields
    /\ supplied.pairs[1][1] = "age_grouped"
    /\ Len(computed.encoded) = 12
    /\ computed.encoded[1].name = "age"

\* C14: encoding a vocabulary-encoded categorical feature never fails: a
\* supplied label of the vocabulary is encoded as its index in the
\* vocabulary (Male as 2, Up as 6), any other label as 0.
C14_UnknownLabelFallsBack ==
    computed.pc \in {"encoded", "done"} =>
        \A i \in 1..Len(computed.encoded) :
            LET f == computed.encoded[i].name IN
            (f \in categorical_features /\ f \in SuppliedFields) =>
                LET label == SuppliedValue(f).v IN
                /\ computed.encoded[i].value.t = "num"
                /\ InSeq(classes_, label) =>
                      classes_[computed.encoded[i].value.v + 1] = label
                /\ ~InSeq(classes_, label) => computed.encoded[i].value.v = 0
                /\ label = "Male" => computed.encoded[i].value.v = 2
                /\ label = "Up" => computed.encoded[i].value.v = 6

C14_Witness ==
    /\ computed.pc = "encoded"
    /\ "insulin" \in SuppliedFields
    /\ SuppliedValue("insulin") = Str("Maybe")
    /\ SuppliedValue("gender") = Str("Male")
    /\ computed.encoded[6] = [name |-> "insulin", value |-> Num(0)]
    /\ computed.encoded[2] = [name |-> "gender", value |-> Num(2)]

\* C15: every entry of the encoded vector of a valid record is a number; no
\* string field, the grouped ones included, reaches the model as a string.
C15_VectorIsNumeric ==
    computed.pc \in {"encoded", "done"} =>
        \A i \in 1..Len(computed.encoded) : computed.encoded[i].value.t = "num"

ColumnOf(name) == CHOOSE i \in 1..Len(computed.encoded) : computed.encoded[i].name = name

\* C16: the feature contributions of a result are at most 10 items in
\* non-increasing order of importance; each is a column of the frame with
\* its importance, its value and contribution = importance * value; when
\* nothing raised they are min(10, number of columns with an importance)
\* items, no column left out has a higher importance than one listed, and
\* columns of equal importance are listed, and cut off, in schema order.
C16_TopContributions ==
    (computed.pc = "done" /\ computed.result.kind = "result"
                          /\ computed.result.include_feature_importance) =>
        LET items == computed.result.result.feature_importance
            model == models[computed.result.model_name]
            imp   == Importances(model, computed.encoded)
            used  == IF Len(imp) <= Len(computed.encoded)
                     THEN Len(imp) ELSE Len(computed.encoded)
            col(k) == ColumnOf(items[k].feature_name)
        IN  /\ Len(items) <= 10
            /\ \A k \in 1..Len(items) :
                  /\ col(k) \in 1..used
                  /\ items[k].importance_score = imp[col(k)]
                  /\ items[k].feature_value = computed.encoded[col(k)].value.v
                  /\ items[k].contribution =
                        items[k].importance_score * items[k].feature_value
            /\ \A k \in 1..(Len(items) - 1) :
                  \/ items[k].importance_score > items[k + 1].importance_score
                  \/ /\ items[k].importance_score = items[k + 1].importance_score
                     /\ col(k) < col(k + 1)
            /\ ~model.raises =>
                  /\ Len(items) = (IF used <= 10 THEN used ELSE 10)
                  /\ \A c \in 1..used :
                        (\A k \in 1..Len(items) : col(k) # c) =>
                            /\ imp[c] <= items[Len(items)].importance_score
                            /\ imp[c] = items[Len(items)].importance_score =>
                                  c > col(Len(items))

C16_Witness ==
    /\ computed.pc = "done" /\ computed.result.kind = "result"
    /\ computed.result.include_feature_importance
    /\ Len(computed.result.result.feature_importance) = 10
    /\ computed.result.result.feature_importance[10].importance_score =
          computed.result.result.feature_importance[9].importance_score
    /\ computed.result.result.feature_importance[1].importance_score >
          computed.result.result.feature_importance[10].importance_score
    /\ \E k \in 1..10 : computed.result.result.feature_importance[k].contribution > 0

\* C17: feature-contribution extraction never fails a prediction: whenever
\* the model scores the frame a result with risk score, tier and band is
\* returned; with a model exposing neither feature_importances_ nor coef_
\* the contributions are built from synthesized importances, and when the
\* extraction raises the contribution list is empty.
C17_ExplainIsBestEffort ==
    (computed.pc = "done" /\ AllNumeric(computed.encoded)) =>
        LET model == models[computed.result.model_name] IN
        /\ computed.result.kind = "result"
        /\ computed.result.result.risk_score \in 0..10000
        /\ computed.result.result.risk_level \in {"Low", "Medium", "High"}
        /\ Len(computed.result.result.confidence_interval) = 2
        /\ (computed.result.include_feature_importance /\ model.raises) =>
              computed.result.result.feature_importance = << >>
        /\ (computed.result.include_feature_importance /\ ~model.raises
                /\ model.capability = "none") =>
              /\ Len(computed.result.result.feature_importance) = 10
              /\ \A k \in 1..10 :
                    computed.result.result.feature_importance[k].importance_score
                        \in Range(model.random)

C17_Witness ==
    /\ computed.pc = "done"
    /\ computed.result.kind = "result"
    /\ computed.result.include_feature_importance
    /\ models[computed.result.model_name].raises
    /\ computed.result.result.feature_importance = << >>
    /\ computed.result.result.risk_level = "High"

C17_WitnessSynthesized ==
    /\ computed.pc = "done"
    /\ computed.result.kind = "result"
    /\ computed.result.include_feature_importance
    /\ models[computed.result.model_name].capability = "none"
    /\ Len(computed.result.result.feature_importance) = 10

-----------------------------------------------------------------------------
(* Cache failures, batches and the cache, batch results *)

\* C18: a cache failure never fails a single prediction.  With Redis not
\* answering, a predict call is scored even when the keyspace holds an entry
\* for it, and the scored and persisted result is returned while nothing is
\* cached; the only failures are an unregistered model and a database error.
C18_CacheFailureIsNotFatal ==
    [][ (calls' = calls + 1 /\ ~redis_up) =>
          /\ cache' = cache
          /\ ModelAvailable(request'.model_name) =>
                /\ inferences' = inferences + 1
                /\ \/ /\ response'.kind = "error"
                      /\ response'.detail = DatabaseError
                      /\ predictions' = predictions
                   \/ /\ response'.kind = "prediction"
                      /\ response'.risk_score =
                            PredictProba(ResolveModel(request'.model_name),
                                         request'.features)
                      /\ Len(predictions') = Len(predictions) + 1
                      /\ predictions'[Len(predictions')].id = response'.prediction_id
                      /\ predictions'[Len(predictions')].risk_score =
                            response'.risk_score
      ]_vars

C18_Witness ==
    /\ ~redis_up
    /\ calls = 2
    /\ inferences = 2
    /\ request.kind = "predict"
    /\ RequestKey(request) \in DOMAIN cache
    /\ response.kind = "prediction"
    /\ response.prediction_id #
          ParseJsonString(cache[RequestKey(request)].prediction_id)
    /\ Len(predictions) = 2

\* C19: with the cache answering, a batch record whose key (patient id,
\* features) is cached is counted as processed without running the model,
\* and a batch record scored on a miss leaves its result in the cache under
\* its key.
C19_BatchUsesCache ==
    [][ \A b \in BatchIds :
          (redis_up /\ job[b].pc = "loop" /\ job'[b].i = job[b].i + 1) =>
              LET key == RequestKey(job[b].predictions[job[b].i]) IN
              /\ key \in DOMAIN cache =>
                    /\ job'[b].processed_count = job[b].processed_count + 1
                    /\ inferences' = inferences
              /\ (key \notin DOMAIN cache /\ inferences' = inferences + 1) =>
                    key \in DOMAIN cache'
      ]_vars

\* C20: getBatch of a completed job succeeds and returns the job's results:
\* as many predictions as processed_records, each a result of a record of
\* that job.
C20_GetBatchReturnsResults ==
    [][ ( /\ request'.kind = "get_batch"
          /\ <<request', response'>> # <<request, response>>
          /\ batch_predictions' = batch_predictions
          /\ response'.kind \in {"batch_status", "error"}
          /\ response'.kind = "error" => response'.detail \in {NotFound, RetrievalError}
          /\ request'.batch_id \in DOMAIN batch_predictions
          /\ batch_predictions[request'.batch_id].status = "completed" ) =>
            /\ response'.kind = "batch_status"
            /\ response'.predictions # None
            /\ Len(response'.predictions) =
                  batch_predictions[request'.batch_id].processed_records
            /\ \A k \in 1..Len(response'.predictions) :
                  response'.predictions[k].prediction_id[1] = request'.batch_id
      ]_vars
-----------------------------------------------------------------------------
(* Registry initialisation: fallback handles *)

\* C21: after _load_models has finished, a model that was constructed as a
\* fallback (its artifact file was missing) is told apart by the registry's
\* state from a model loaded from a real artifact: its registry entry is not
\* one that loading an artifact file could have produced.
C21_FallbackIsDistinguishable ==
    loading > Len(model_configs) =>
        \A m \in DOMAIN models :
            artifacts[m].kind = "missing" =>
                \A h \in TrainedModels(m) : models[m] # h

-----------------------------------------------------------------------------
(* History pages *)

\* The page [offset, offset + limit) of a patient's stored predictions, newest
\* first, as responses.
StoredPage(patient_id, limit, offset) ==
    LET rows == Slice(RowsOf(predictions, patient_id), offset, limit)
    IN  [k \in 1..Len(rows) |-> ResponseOfRow(rows[k])]

\* A step of get_patient_predictions: the last request is a history request
\* and nothing but request, response and cache moved.
HistoryStep ==
    /\ request'.kind = "history"
    /\ UNCHANGED <<calls, background_tasks, redis_up, predictions>>

\* C22: get_patient_predictions(patient, limit, offset), called when no
\* invalidation is pending, answers the number of the patient's stored
\* predictions and the page [offset, offset + limit) of them, newest first,
\* whether it is served from the history cache or from the store, for every
\* limit and offset of this and of earlier calls.
C22_HistoryPageFromCacheOrStore ==
    [][ (HistoryStep /\ background_tasks = << >>) =>
          /\ response'.kind = "history"
          /\ response'.total_predictions =
                Len(RowsOf(predictions, request'.patient_id))
          /\ response'.predictions =
                StoredPage(request'.patient_id, request'.limit, request'.offset)
      ]_vars

-----------------------------------------------------------------------------
(* Request validation *)

\* A single-prediction body with a subject id that is no UUID or an age
\* outside 0..150; a batch body with no record or more than 1000 records.
Malformed(r) ==
    \/ /\ r.kind = "predict"
       /\ \/ r.patient_id \notin Patients
          \/ r.features.age.v < 0
          \/ r.features.age.v > 150
    \/ /\ r.kind = "batch"
       /\ \/ Len(r.predictions) = 0
          \/ Len(r.predictions) > 1000

\* C23: a single prediction request with an invalid subject id or an
\* out-of-range feature, and a batch request with an empty list or more than
\* 1000 records, is answered with a validation error (422) and nothing else
\* happens: no scoring, no prediction row, no batch row or job, no cache entry,
\* no background task.
C23_MalformedInputIsRejected ==
    [][ (request' # request /\ Malformed(request')) =>
          /\ response' = ErrorResponse(422, "validation error")
          /\ UNCHANGED <<predictions, batch_predictions, job, cache,
                         background_tasks, inferences, calls, succeeded>>
      ]_vars

\* An oversized list was rejected while earlier work is in the store, and an
\* out-of-range age was rejected.
C23_Witness ==
    /\ request.kind = "batch"
    /\ Len(request.predictions) > 1000
    /\ response = ErrorResponse(422, "validation error")
    /\ predictions # << >>
    /\ "b1" \in DOMAIN batch_predictions

-----------------------------------------------------------------------------
(* Batch jobs: identifiers, model names, isolation, counters *)

\* C24: a batch submission that is answered with a job receives a batch_id
\* no persisted job has, and the job is persisted under it: no two submissions
\* receive the same identifier, and a batch_id names at most one job.
C24_BatchIdsAreUnique ==
    [][ \A b \in BatchIds :
          (response'.kind = "batch" /\ response'.batch_id = b /\ response' # response) =>
              /\ b \notin DOMAIN batch_predictions
              /\ b \in DOMAIN batch_predictions'
      ]_vars

\* Two submissions were answered with jobs.
C24_Witness ==
    /\ DOMAIN batch_predictions = BatchIds
    /\ response.kind = "batch"
    /\ job[response.batch_id].pc = "queued"

\* The stored predictions a job produced.
ResultsOf(b) ==
    { k \in 1..Len(predictions) : predictions[k].id[1] = b }

\* C25: a job submitted without a model name is owned by the default model,
\* one submitted with a name by that model; every result of the job, committed
\* or still in its session, has the job's model name as its model, whatever
\* model_name the individual records carry.
C25_BatchModelAgreement ==
    \A b \in DOMAIN batch_predictions :
        /\ Row(b).model_name =
              (IF job[b].model_name = None THEN DEFAULT_MODEL ELSE job[b].model_name)
        /\ \A k \in 1..Len(job[b].pending) :
              job[b].pending[k].model_name = Row(b).model_name
        /\ \A k \in ResultsOf(b) : predictions[k].model_name = Row(b).model_name

\* A completed job submitted without a model name has the result of a record
\* that named another model.
C25_Witness ==
    \E b \in DOMAIN batch_predictions :
        /\ Row(b).status = "completed"
        /\ job[b].model_name = None
        /\ \E k \in ResultsOf(b) :
              /\ job[b].predictions[predictions[k].id[2]].model_name = "lightgbm"
              /\ predictions[k].model_name = DEFAULT_MODEL

\* The step changed the job's row or its task's locals.
JobChanged(b) ==
    \/ job'[b] # job[b]
    \/ (b \in DOMAIN batch_predictions) # (b \in DOMAIN batch_predictions')
    \/ /\ b \in DOMAIN batch_predictions
       /\ b \in DOMAIN batch_predictions'
       /\ batch_predictions'[b] # batch_predictions[b]

\* C26: under every interleaving of batch jobs a step changes the row and the
\* locals of one job only, the predictions it commits are that job's, and a
\* completed job's counters are the tallies of its own records: processed is
\* the number of its own results, processed + failed its own total.
C26_BatchJobsAreIsolated ==
    [][ /\ \A b1, b2 \in BatchIds :
             (JobChanged(b1) /\ JobChanged(b2)) => b1 = b2
        /\ \A k \in (Len(predictions) + 1)..Len(predictions') :
             JobChanged(predictions'[k].id[1])
        /\ \A b \in DOMAIN batch_predictions' :
             batch_predictions'[b].status = "completed" =>
                 /\ batch_predictions'[b].processed_records =
                       Cardinality({ k \in 1..Len(predictions') :
                                       predictions'[k].id[1] = b })
                 /\ batch_predictions'[b].processed_records
                       + batch_predictions'[b].failed_records
                       = Len(job'[b].predictions)
      ]_vars

\* One job completed with every record scored while the other, in flight at
\* the same time, has tallied a failure.
C26_Witness ==
    /\ DOMAIN batch_predictions = BatchIds
    /\ Row("b1").status = "completed"
    /\ Row("b1").failed_records = 0
    /\ job["b2"].pc = "loop"
    /\ job["b2"].failed_count = 1
    /\ Row("b2").status = "processing"

\* C29: for every persisted batch job the counters are not negative and
\* processed + failed <= total; completed_at is set exactly when the status is
\* completed or failed; error_message is set only when the status is failed;
\* while the status is pending or processing both counters are 0.
C29_BatchRowInvariants ==
    \A b \in DOMAIN batch_predictions :
        /\ Row(b).processed_records >= 0
        /\ Row(b).failed_records >= 0
        /\ Row(b).processed_records + Row(b).failed_records <= Row(b).total_records
        /\ Row(b).completed_at <=> Row(b).status \in {"completed", "failed"}
        /\ Row(b).error_message # NoError => Row(b).status = "failed"
        /\ Row(b).status \in {"pending", "processing"} =>
              /\ Row(b).processed_records = 0
              /\ Row(b).failed_records = 0

\* One job failed with its error recorded, another completed with a scored
\* and a failed record.
C29_Witness ==
    /\ DOMAIN batch_predictions = BatchIds
    /\ Row("b1").status = "failed"
    /\ Row("b1").error_message # NoError
    /\ Row("b1").completed_at
    /\ Row("b2").status = "completed"
    /\ Row("b2").processed_records = 1
    /\ Row("b2").failed_records = 1
    /\ Row("b2").completed_at

-----------------------------------------------------------------------------
(* Cache hits of create_prediction *)

\* The fields of a response that are stored in the cache as they are.
CachedFields ==
    { "risk_score", "confidence_interval", "risk_level", "model_used",
      "model_version", "feature_importance", "processing_time_ms" }

\* C27: a create_prediction call whose key is in the answering cache changes
\* nothing: no prediction row, no cache write, no background task, no
\* inference; it returns the cached response, whose prediction_id,
\* processing_time_ms and created_at are those of the earlier call that
\* stored it and whose row is in the store.
C27_CacheHitChangesNothing ==
    [][ (calls' = calls + 1 /\ redis_up /\ RequestKey(request') \in DOMAIN cache) =>
          /\ UNCHANGED <<predictions, cache, background_tasks, inferences,
                         batch_predictions, job>>
          /\ response'.kind = "prediction"
          /\ \A f \in CachedFields : response'[f] = cache[RequestKey(request')][f]
          /\ \E n \in 1..calls :
                /\ response'.prediction_id = PredictionId(n)
                /\ response'.created_at = n
                /\ response'.processing_time_ms = ElapsedMs(n)
                /\ \E k \in 1..Len(predictions) :
                      /\ predictions[k].id = PredictionId(n)
                      /\ predictions[k].patient_id = request'.patient_id
      ]_vars

\* The second call was answered from the cache with the first call's response.
C27_Witness ==
    /\ calls = 2
    /\ redis_up
    /\ request.kind = "predict"
    /\ response.kind = "prediction"
    /\ response.prediction_id = PredictionId(1)
    /\ response.created_at = 1
    /\ Len(predictions) = 1
    /\ inferences = 1

-----------------------------------------------------------------------------
(* History cache and invalidation *)

\* No operation is in flight: no background task of create_prediction is
\* queued and no batch task is queued or running.
Quiescent ==
    /\ background_tasks = << >>
    /\ \A b \in BatchIds : job[b].pc \in {"idle", "done"}

\* C28: once every in-flight operation has finished (create_prediction with
\* its clear_patient_cache task, process_batch_predictions, the history
\* requests), a history cache entry that exists reports as total the number
\* of the patient's persisted predictions.
C28_HistoryCacheIsFresh ==
    Quiescent =>
        \A p \in Patients :
            PatientHistoryCacheKey(p) \in DOMAIN cache =>
                cache[PatientHistoryCacheKey(p)].total_predictions
                    = Len(RowsOf(predictions, p))

-----------------------------------------------------------------------------
(* Neutral substitution in the encoded vector *)

\* The PatientFeatures field under which a record supplies a schema feature:
\* the combination medication is declared as glyburide_metformin with the
\* alias "glyburide-metformin".
FieldOfFeature(name) ==
    IF name = "glyburide-metformin" THEN "glyburide_metformin" ELSE name

\* C30: in the encoded vector the neutral 0 stands for a schema feature only
\* when the record supplies no value for it; a supplied number is the entry
\* itself and a supplied label of a vocabulary-encoded feature, the
\* hyphen-named combination medication included, is entered as its encoding
\* (its index in the vocabulary, 0 for an unknown label).
C30_SuppliedValueIsEncoded ==
    computed.pc \in {"encoded", "done"} =>
        \A i \in 1..Len(computed.encoded) :
            LET f == FieldOfFeature(computed.encoded[i].name)
                entry == computed.encoded[i].value
            IN  /\ f \notin SuppliedFields => entry = Num(0)
                /\ (f \in SuppliedFields /\ SuppliedValue(f).t = "num") =>
                      entry = SuppliedValue(f)
                /\ (f \in SuppliedFields /\ SuppliedValue(f).t = "str"
                        /\ f \in categorical_features) =>
                      entry = IF InSeq(classes_, SuppliedValue(f).v)
                              THEN Num(IndexOf(classes_, SuppliedValue(f).v) - 1)
                              ELSE Num(0)

=============================================================================
